---- MODULE Spec2Model ----
(***************************************************************************)
(* The job-polling editor of frontend/src/pages/Editor.tsx (the first      *)
(* Editor component of the file, lines 42-229): the useEffect that starts  *)
(* a polling flow for a job id, pollJobStatus, the interval and deadline   *)
(* timers, the effect cleanup, and handleSend.  The backend is the         *)
(* environment: it moves a job along the status graph and answers the      *)
(* status and result requests.                                             *)
(*                                                                         *)
(* Timers are modelled as the event loop sees them: an armed timer may     *)
(* fire at any later turn of the loop (responses may take any time, and a  *)
(* browser may delay a timer), a cleared timer never fires.  Each action   *)
(* is one turn of the event loop: a callback up to its next await.         *)
(***************************************************************************)
EXTENDS Integers, Sequences, FiniteSets, TLC

\* ------------------------------------------------------------- bounds
MaxFlows == 2            \* submissions (effect runs) of one mounted editor
MaxStatusFetches == 2    \* status fetches issued in one behaviour, initial polls included
MaxSends == 1            \* chat messages the user sends with handleSend

Flows == 1..MaxFlows

\* ------------------------------------------------------- data (Editor.tsx 26-40)
JobStatus ==
  {"pending", "processing", "ocr_extracting", "ai_generating", "validating",
   "completed", "failed", "cancelled"}

TerminalStatus == {"completed", "failed", "cancelled"}

\* error.message values the backend reports; "none" is a snapshot without error
ErrorMessages == {"ocr_error"}
\* progress_percentage values and current_stage labels the backend reports;
\* "null" is current_stage: null
Percentages == {40}
Stages == {"null"}

\* JobStatusData; portfolio_id is modelled by its presence
Snapshot(job, st, pct, stage, err, pid) ==
  [job_id |-> job, status |-> st, progress_percentage |-> pct,
   current_stage |-> stage, error |-> err, portfolio_id |-> pid]

\* useState<JobStatusData | null>(null)
NullJob == Snapshot(0, "null", 0, "null", "none", FALSE)

\* setJobStatus({job_id, status: "pending", progress_percentage: 0, current_stage: null})
PendingJob(job) == Snapshot(job, "pending", 0, "null", "none", FALSE)

\* one timeline message; kind and the three fields stand for the content string
Msg(role, kind, text, pct, stage) ==
  [role |-> role, kind |-> kind, text |-> text, pct |-> pct, stage |-> stage]

UserSubmission(f) == Msg("user", "submission", "", f, "")
\* "I've received your resume ... I am currently analyzing the document ..."
Acknowledgement(f) == Msg("assistant", "ack", "analyzing", f, "")
\* "I'll help you create that! ... Generating your project structure..."
PromptAcknowledgement(f) == Msg("assistant", "prompt_ack", "", f, "")
CompletionMessage == Msg("assistant", "completion", "", 0, "")
FailureMessage(err) ==
  Msg("assistant", "failure", IF err = "none" THEN "Unknown error" ELSE err, 0, "")
JobNotFoundMessage == Msg("assistant", "not_found", "", 0, "")
TimeoutMessage == Msg("assistant", "timeout", "", 0, "")
UserChat == Msg("user", "chat", "", 0, "")
ChatReply == Msg("assistant", "chat_reply", "", 0, "")

\* a lookup whose failed line does not interpolate error.message
statusMessagesFixedFailure(snap) ==
  CASE snap.status = "pending" -> "Job queued, waiting to start..."
    [] snap.status = "processing" -> "Initializing portfolio generation..."
    [] snap.status = "ocr_extracting" -> "Extracting text from your resume..."
    [] snap.status = "ai_generating" -> "AI is generating your portfolio content..."
    [] snap.status = "validating" -> "Validating and finalizing your portfolio..."
    [] snap.status = "completed" -> "Portfolio generation complete!"
    [] snap.status = "failed" -> "Generation failed: Unknown error"
    [] snap.status = "cancelled" -> "Job was cancelled"
    [] OTHER -> "Processing..."

\* statusMessages[statusData.status]: the fixed lookup, failed interpolates error.message
statusMessages(snap) ==
  CASE snap.status = "pending" -> "Job queued, waiting to start..."
    [] snap.status = "processing" -> "Initializing portfolio generation..."
    [] snap.status = "ocr_extracting" -> "Extracting text from your resume..."
    [] snap.status = "ai_generating" -> "AI is generating your portfolio content..."
    [] snap.status = "validating" -> "Validating and finalizing your portfolio..."
    [] snap.status = "completed" -> "Portfolio generation complete!"
    [] snap.status = "failed" ->
         IF snap.error = "none" THEN "Generation failed: Unknown error"
         ELSE "Generation failed: " \o snap.error
    [] snap.status = "cancelled" -> "Job was cancelled"
    [] OTHER -> "Processing..."

\* `${statusMessage}\n\nProgress: ${pct}%\nStage: ${stage || "Initializing"}`
ProgressLine(snap) ==
  Msg("assistant", "progress", statusMessages(snap), snap.progress_percentage,
      IF snap.current_stage = "null" THEN "Initializing" ELSE snap.current_stage)

\* content.includes("analyzing"): of the modelled contents only the job
\* acknowledgement holds the word (no status line, stage or error modelled does)
IncludesAnalyzing(m) == m.kind = "ack"

\* a coalescing that overwrites the last message whatever it is
CoalesceAnyLast(prev, snap) ==
  IF Len(prev) > 0
  THEN SubSeq(prev, 1, Len(prev) - 1) \o <<ProgressLine(snap)>>
  ELSE prev

\* setMessages(prev => ...) of lines 108-117
CoalesceProgress(prev, snap) ==
  IF Len(prev) > 0 /\ prev[Len(prev)].role = "assistant" /\ IncludesAnalyzing(prev[Len(prev)])
  THEN SubSeq(prev, 1, Len(prev) - 1) \o <<ProgressLine(snap)>>
  ELSE prev

\* ------------------------------------------------------------- state
VARIABLES
  mounted,        \* the Editor component is mounted
  flow,           \* number of effect runs so far; the current flow, 0 before the first
  flowKind,       \* per flow: "job", "prompt", "empty" or "none" (not run yet)
  messages,       \* useState messages (the timeline)
  isGenerating,   \* useState isGenerating (the in-progress flag)
  jobStatus,      \* useState jobStatus (the Job snapshot)
  portfolioData,  \* useState portfolioData (the result artifact): "null", "portfolio", "body202"
  intervalId,     \* per flow: the setInterval timer is armed
  timeoutId,      \* per flow: the setTimeout deadline timer is armed
  captured,       \* per flow: jobStatus?.status as closed over by the deadline callback
  requests,       \* requests in flight, in the order they were issued
  srv,            \* per flow: the backend's job record
  simTimers,      \* armed setTimeout(() => setIsGenerating(false), 2000) of prompt flows
  sendTimers,     \* armed 1500 ms timers of handleSend
  sends,          \* handleSend calls so far
  statusFetches,  \* per flow: GET /jobs/{id} requests issued so far
  resultFetches,  \* per flow: GET /portfolio/{id} requests issued so far
  deadlineFired,  \* per flow: "none", or how the deadline callback found the flow when it ran:
                  \* "pending" (no terminal status applied yet) or "settled"
  sockets,        \* streaming editor: the WebSocket of each handleSend call, in call order
  input,          \* streaming editor: useState input (the chat input field)
  heroMounted,    \* upload entry point: the Hero component is mounted
  prompt,         \* Hero: useState prompt
  file,           \* Hero: useState file, "null" or the attached file's name
  isUploading,    \* Hero: useState isUploading
  uploads,        \* Hero: the POST /resume/upload request of each handleSubmit call with a file
  navigations,    \* Hero: the search parameters of each navigate("/editor?...") so far
  localStorage,   \* the browser's localStorage: the entries "token" and "auth_token"
  currentUser,    \* Firebase auth.currentUser: "null" or "user"
  authEvents,     \* auth state changes not yet delivered to Header's onAuthStateChanged callback
  user,           \* Header: useState user
  googleLogin,    \* handleGoogleLogin: "idle", "popup" (awaiting signInWithPopup) or "token" (awaiting getIdToken)
  exchange,       \* GitHubCallback: "idle", "sent" (awaiting the token exchange), "success" or "error"
  logout,         \* handleLogout: "idle" or "signOut" (awaiting signOut)
  signIns,        \* sign-in attempts so far, Google and GitHub
  logouts,        \* handleLogout calls so far
  editorRoute,    \* the last visit of /editor: "none", "rendered" or "redirected"
  authorization   \* the Authorization header of the last api request: "none" before any, "absent" when not set

vars ==
  <<mounted, flow, flowKind, messages, isGenerating, jobStatus, portfolioData,
    intervalId, timeoutId, captured, requests, srv, simTimers, sendTimers, sends,
    statusFetches, resultFetches, deadlineFired, sockets, input,
    heroMounted, prompt, file, isUploading, uploads, navigations,
    localStorage, currentUser, authEvents, user, googleLogin, exchange, logout,
    signIns, logouts, editorRoute, authorization>>

\* the state only the polling editor has, and the state only the streaming editor has
pollVars ==
  <<flow, flowKind, jobStatus, portfolioData, intervalId, timeoutId, captured, requests, srv,
    simTimers, sendTimers, sends, statusFetches, resultFetches, deadlineFired>>
streamVars == <<sockets, input>>
\* the state of the upload entry point
heroVars == <<heroMounted, prompt, file, isUploading, uploads, navigations>>
\* the state outside the editors
\* the state of sign-in, sign-out and the protected route
authVars ==
  <<localStorage, currentUser, authEvents, user, googleLogin, exchange, logout,
    signIns, logouts, editorRoute, authorization>>
entryVars == <<heroVars, authVars>>

clientState == <<messages, isGenerating, jobStatus, portfolioData>>

\* the backend's record of a job that was never uploaded / not submitted yet
NoJob == [status |-> "missing", error |-> "none", portfolio_id |-> FALSE]

Init ==
  /\ mounted = TRUE
  /\ flow = 0
  /\ flowKind = [f \in Flows |-> "none"]
  /\ messages = <<>>
  /\ isGenerating = FALSE
  /\ jobStatus = NullJob
  /\ portfolioData = "null"
  /\ intervalId = [f \in Flows |-> FALSE]
  /\ timeoutId = [f \in Flows |-> FALSE]
  /\ captured = [f \in Flows |-> "null"]
  /\ requests = <<>>
  /\ srv = [f \in Flows |-> NoJob]
  /\ simTimers = 0
  /\ sendTimers = 0
  /\ sends = 0
  /\ statusFetches = [f \in Flows |-> 0]
  /\ resultFetches = [f \in Flows |-> 0]
  /\ deadlineFired = [f \in Flows |-> "none"]
  /\ sockets = <<>>
  /\ input = ""
  /\ heroMounted = TRUE
  /\ prompt = ""
  /\ file = "null"
  /\ isUploading = FALSE
  /\ uploads = <<>>
  /\ navigations = <<>>
  /\ localStorage = [token |-> "null", auth_token |-> "null"]
  /\ currentUser = "null"
  /\ authEvents = <<>>
  /\ user = "null"
  /\ googleLogin = "idle"
  /\ exchange = "idle"
  /\ logout = "idle"
  /\ signIns = 0
  /\ logouts = 0
  /\ editorRoute = "none"
  /\ authorization = "none"

\* ------------------------------------------------------------- helpers
RECURSIVE SumOver(_, _)
SumOver(fn, dom) ==
  IF dom = {} THEN 0
  ELSE LET x == CHOOSE y \in dom : TRUE IN fn[x] + SumOver(fn, dom \ {x})

\* the model issues at most MaxStatusFetches status fetches
FetchBudgetLeft == SumOver(statusFetches, Flows) < MaxStatusFetches

RemoveAt(seq, i) == SubSeq(seq, 1, i - 1) \o SubSeq(seq, i + 1, Len(seq))

\* a state setter of an unmounted component changes nothing
SetState(new, old) == IF mounted THEN new ELSE old

\* api.get(`/jobs/${jobId}`) and api.get(`/portfolio/${jobId}`), as issued.
\* origin is the caller of pollJobStatus: the initial poll or an interval tick
StatusRequest(f, origin) ==
  [flow |-> f, origin |-> origin, kind |-> "status", phase |-> "sent",
   code |-> 0, data |-> NullJob]
ResultRequest(f, origin) ==
  [flow |-> f, origin |-> origin, kind |-> "result", phase |-> "sent",
   code |-> 0, data |-> NullJob]

\* a cleanup that forgets clearTimeout(timeoutId)
ClearedByCleanupIntervalOnly == {"intervalId"}

\* the timers the effect cleanup clears (lines 206-209)
ClearedByCleanup == {"intervalId", "timeoutId"}

\* the timer table after the cleanup of flow f has run
AfterCleanup(timer, name, f) ==
  IF f \in Flows /\ name \in ClearedByCleanup THEN [timer EXCEPT ![f] = FALSE] ELSE timer

\* ------------------------------------------------------------- the backend
\* the status graph: pending -> processing -> ocr_extracting -> ai_generating ->
\* validating -> completed, and any non-terminal status -> failed | cancelled
Successors(st) ==
  (CASE st = "pending" -> {"processing"}
     [] st = "processing" -> {"ocr_extracting"}
     [] st = "ocr_extracting" -> {"ai_generating"}
     [] st = "ai_generating" -> {"validating"}
     [] st = "validating" -> {"completed"}
     [] OTHER -> {})
  \cup (IF st \in JobStatus \ TerminalStatus THEN {"failed", "cancelled"} ELSE {})

\* the statuses the job can have reached from st after zero or more edges
RECURSIVE ReachableFrom(_, _)
ReachableFrom(sts, n) ==
  IF n = 0 THEN sts
  ELSE ReachableFrom(sts \cup UNION {Successors(st) : st \in sts}, n - 1)

LaterStatuses(st) == ReachableFrom({st}, Cardinality(JobStatus))

\* the backend's job record once it has moved on to status st
Advanced(job, st, err, pid) ==
  IF st = job.status THEN job
  ELSE [status |-> st,
        error |-> IF st = "failed" THEN err ELSE "none",
        portfolio_id |-> IF st = "completed" THEN pid ELSE FALSE]

\* GET /jobs/{id} reaches the backend: 404 for an unknown job id; else the job
\* has moved zero or more edges along the graph since it was last looked at,
\* and the answer is its snapshot now
ServerAnswerWith(i, pcts, stages) ==
  /\ i \in 1..Len(requests)
  /\ requests[i].kind = "status" /\ requests[i].phase = "sent"
  /\ LET r == requests[i]
         job == srv[r.flow]
     IN IF job.status = "missing"
        THEN /\ requests' = [requests EXCEPT ![i] = [r EXCEPT !.phase = "answered", !.code = 404]]
             /\ UNCHANGED srv
        ELSE \E st \in LaterStatuses(job.status), err \in ErrorMessages \cup {"none"},
                pid \in BOOLEAN, pct \in pcts, stage \in stages :
               LET now == Advanced(job, st, err, pid) IN
                 /\ (st = job.status \/ st # "failed") => err = "none"
                 /\ (st = job.status \/ st # "completed") => pid = FALSE
                 /\ now.status \in TerminalStatus => stage = "null"
                 /\ srv' = [srv EXCEPT ![r.flow] = now]
                 /\ requests' =
                      [requests EXCEPT ![i] =
                         [r EXCEPT !.phase = "answered", !.code = 200,
                                   !.data = Snapshot(r.flow, now.status, pct, stage,
                                                     now.error, now.portfolio_id)]]
  /\ UNCHANGED <<mounted, flow, flowKind, messages, isGenerating, jobStatus, portfolioData,
                 intervalId, timeoutId, captured, simTimers, sendTimers, sends,
                 statusFetches, resultFetches, deadlineFired>>
  /\ UNCHANGED <<streamVars, entryVars>>

ServerAnswerStatus(i) == ServerAnswerWith(i, Percentages, Stages)

\* a backend whose progress reports vary: the percentage may go down as well
\* as up and the stage label may be missing
ProgressValues == {10, 40}
StageValues == {"null", "ocr"}
ServerAnswerProgress(i) == ServerAnswerWith(i, ProgressValues, StageValues)

\* ------------------------------------------------------------- the effect
\* useEffect body for a submission with a job id (lines 57-209), after the
\* cleanup of the previous effect run
SubmitJob ==
  /\ mounted /\ flow < MaxFlows /\ FetchBudgetLeft
  /\ LET f == flow + 1 IN
       /\ flow' = f
       /\ flowKind' = [flowKind EXCEPT ![f] = "job"]
       /\ messages' = <<UserSubmission(f), Acknowledgement(f)>>
       /\ isGenerating' = TRUE
       /\ jobStatus' = PendingJob(f)
       /\ requests' = Append(requests, StatusRequest(f, "initial"))
       /\ statusFetches' = [statusFetches EXCEPT ![f] = 1]
       /\ intervalId' = [AfterCleanup(intervalId, "intervalId", flow) EXCEPT ![f] = TRUE]
       /\ timeoutId' = [AfterCleanup(timeoutId, "timeoutId", flow) EXCEPT ![f] = TRUE]
       /\ captured' = [captured EXCEPT ![f] = jobStatus.status]
       /\ \E known \in BOOLEAN :
            srv' = [srv EXCEPT ![f] =
                      IF known THEN [status |-> "pending", error |-> "none", portfolio_id |-> FALSE]
                      ELSE NoJob]
  /\ UNCHANGED <<mounted, portfolioData, simTimers, sendTimers, sends, resultFetches,
                 deadlineFired>>
  /\ UNCHANGED <<streamVars, entryVars>>

\* useEffect body for a submission with a prompt or file but no job id (lines 210-213)
SubmitPrompt ==
  /\ mounted /\ flow < MaxFlows
  /\ LET f == flow + 1 IN
       /\ flow' = f
       /\ flowKind' = [flowKind EXCEPT ![f] = "prompt"]
       /\ messages' = <<UserSubmission(f), PromptAcknowledgement(f)>>
       /\ isGenerating' = TRUE
       /\ simTimers' = simTimers + 1
       /\ intervalId' = AfterCleanup(intervalId, "intervalId", flow)
       /\ timeoutId' = AfterCleanup(timeoutId, "timeoutId", flow)
  /\ UNCHANGED <<mounted, jobStatus, portfolioData, captured, requests, srv, sendTimers,
                 sends, statusFetches, resultFetches, deadlineFired>>
  /\ UNCHANGED <<streamVars, entryVars>>

\* setTimeout(() => setIsGenerating(false), 2000) of a prompt submission fires
SimTimerFire ==
  /\ simTimers > 0
  /\ simTimers' = simTimers - 1
  /\ isGenerating' = SetState(FALSE, isGenerating)
  /\ UNCHANGED <<mounted, flow, flowKind, messages, jobStatus, portfolioData, intervalId,
                 timeoutId, captured, requests, srv, sendTimers, sends, statusFetches,
                 resultFetches, deadlineFired>>
  /\ UNCHANGED <<streamVars, entryVars>>

\* the interval callback of flow f runs up to its await: pollJobStatus issues a status fetch
Tick(f) ==
  /\ intervalId[f]
  /\ FetchBudgetLeft
  /\ requests' = Append(requests, StatusRequest(f, "tick"))
  /\ statusFetches' = [statusFetches EXCEPT ![f] = @ + 1]
  /\ UNCHANGED <<mounted, flow, flowKind, messages, isGenerating, jobStatus, portfolioData,
                 intervalId, timeoutId, captured, srv, simTimers, sendTimers, sends,
                 resultFetches, deadlineFired>>
  /\ UNCHANGED <<streamVars, entryVars>>

\* if (shouldStop) clearInterval(intervalId): only the interval callback reads
\* what pollJobStatus returns, the initial poll drops it (lines 183-192)
AfterReturn(r, shouldStop) ==
  IF shouldStop /\ r.origin = "tick" THEN [intervalId EXCEPT ![r.flow] = FALSE] ELSE intervalId

\* a setter that never lets the stored progress percentage go down
ApplySnapshotMonotone(prev, statusData) ==
  IF prev.job_id = statusData.job_id
       /\ prev.progress_percentage > statusData.progress_percentage
  THEN [statusData EXCEPT !.progress_percentage = prev.progress_percentage]
  ELSE statusData

\* setJobStatus(statusData): the fetched snapshot replaces the stored one (line 92)
ApplySnapshot(prev, statusData) == statusData

\* pollJobStatus after `await api.get(/jobs/id)` resolved with a snapshot (lines 91-167)
StatusResolved(i) ==
  /\ i \in 1..Len(requests)
  /\ requests[i].kind = "status" /\ requests[i].phase = "answered" /\ requests[i].code = 200
  /\ LET r == requests[i]
         statusData == r.data
         coalesced == CoalesceProgress(messages, statusData)
     IN /\ jobStatus' = SetState(ApplySnapshot(jobStatus, statusData), jobStatus)
        /\ IF statusData.status = "completed" /\ statusData.portfolio_id
           THEN /\ messages' = SetState(coalesced, messages)
                /\ requests' = Append(RemoveAt(requests, i), ResultRequest(r.flow, r.origin))
                /\ resultFetches' = [resultFetches EXCEPT ![r.flow] = @ + 1]
                /\ UNCHANGED <<isGenerating, intervalId>>
           ELSE IF statusData.status = "failed"
           THEN /\ isGenerating' = SetState(FALSE, isGenerating)
                /\ messages' = SetState(Append(coalesced, FailureMessage(statusData.error)), messages)
                /\ intervalId' = AfterReturn(r, TRUE)
                /\ requests' = RemoveAt(requests, i)
                /\ UNCHANGED resultFetches
           ELSE /\ messages' = SetState(coalesced, messages)
                /\ intervalId' = AfterReturn(r, FALSE)
                /\ requests' = RemoveAt(requests, i)
                /\ UNCHANGED <<isGenerating, resultFetches>>
  /\ UNCHANGED <<mounted, flow, flowKind, portfolioData, timeoutId, captured, srv, simTimers,
                 sendTimers, sends, statusFetches, deadlineFired>>
  /\ UNCHANGED <<streamVars, entryVars>>

\* error.response?.status of a status fetch that fails otherwise than with
\* 404: a 5xx answer, or 0 for a network failure (no response)
TransientCodes == {500, 0}

\* a catch that takes every failed status fetch for a missing job
IsJobNotFoundAnyError(code) == TRUE

\* error.response?.status === 404 (line 170)
IsJobNotFound(code) == code = 404

\* the catch block of pollJobStatus for the failed status fetch i (lines 168-180)
StatusCatch(i, code) ==
  /\ IF IsJobNotFound(code)
     THEN /\ isGenerating' = SetState(FALSE, isGenerating)
          /\ messages' = SetState(Append(messages, JobNotFoundMessage), messages)
          /\ intervalId' = AfterReturn(requests[i], TRUE)
     ELSE /\ intervalId' = AfterReturn(requests[i], FALSE)
          /\ UNCHANGED <<messages, isGenerating>>
  /\ requests' = RemoveAt(requests, i)
  /\ UNCHANGED <<mounted, flow, flowKind, jobStatus, portfolioData, timeoutId, captured, srv,
                 simTimers, sendTimers, sends, statusFetches, resultFetches, deadlineFired>>
  /\ UNCHANGED <<streamVars, entryVars>>

\* pollJobStatus catch with error.response?.status === 404 (lines 168-178)
StatusNotFound(i) ==
  /\ i \in 1..Len(requests)
  /\ requests[i].kind = "status" /\ requests[i].phase = "answered" /\ requests[i].code = 404
  /\ StatusCatch(i, 404)

\* pollJobStatus catch with any other error (network failure, 5xx): line 179
StatusFailed(i) ==
  /\ i \in 1..Len(requests)
  /\ requests[i].kind = "status" /\ requests[i].phase = "sent"
  /\ \E code \in TransientCodes : StatusCatch(i, code)

\* HTTP codes GET /portfolio/{id} is answered with; 0 is a network failure
ResultCodes == {200, 202, 404, 500, 0}

\* axios resolves every 2xx response (200 and 202 alike) and rejects the others
AxiosResolves(code) == code >= 200 /\ code < 300

\* a catch that stops polling when the result is not available yet
StopOnNotYetAvailable(code) == code \in {202, 404}

\* what the catch of the result fetch returns: `return false` for 202/404 and
\* for every other error (lines 144-154)
StopAfterResultError(code) == FALSE

\* pollJobStatus after `await api.get(/portfolio/id)` settled with code (lines 122-154)
ResultSettledWith(i, code) ==
  /\ i \in 1..Len(requests)
  /\ requests[i].kind = "result"
  /\ IF AxiosResolves(code)
     THEN /\ portfolioData' = SetState(IF code = 200 THEN "portfolio" ELSE "body202", portfolioData)
          /\ messages' = SetState(Append(messages, CompletionMessage), messages)
          /\ isGenerating' = SetState(FALSE, isGenerating)
          /\ intervalId' = AfterReturn(requests[i], TRUE)
     ELSE /\ intervalId' = AfterReturn(requests[i], StopAfterResultError(code))
          /\ UNCHANGED <<portfolioData, messages, isGenerating>>
  /\ requests' = RemoveAt(requests, i)
  /\ UNCHANGED <<mounted, flow, flowKind, jobStatus, timeoutId, captured, srv, simTimers,
                 sendTimers, sends, statusFetches, resultFetches, deadlineFired>>
  /\ UNCHANGED <<streamVars, entryVars>>

ResultSettled(i) == \E code \in ResultCodes : ResultSettledWith(i, code)

\* the deadline callback of flow f (lines 195-204); jobStatus there is the
\* value the effect closed over, not the live state
Deadline(f) ==
  /\ timeoutId[f]
  /\ timeoutId' = [timeoutId EXCEPT ![f] = FALSE]
  /\ deadlineFired' =
       [deadlineFired EXCEPT ![f] =
          IF jobStatus.job_id = f /\ jobStatus.status \in TerminalStatus
          THEN "settled" ELSE "pending"]
  /\ intervalId' = [intervalId EXCEPT ![f] = FALSE]
  /\ IF captured[f] # "completed" /\ captured[f] # "failed"
     THEN /\ isGenerating' = SetState(FALSE, isGenerating)
          /\ messages' = SetState(Append(messages, TimeoutMessage), messages)
     ELSE UNCHANGED <<isGenerating, messages>>
  /\ UNCHANGED <<mounted, flow, flowKind, jobStatus, portfolioData, captured, requests, srv,
                 simTimers, sendTimers, sends, statusFetches, resultFetches>>
  /\ UNCHANGED <<streamVars, entryVars>>

\* the component unmounts: the cleanup of the current effect runs
Unmount ==
  /\ mounted /\ flow > 0
  /\ mounted' = FALSE
  /\ intervalId' = AfterCleanup(intervalId, "intervalId", flow)
  /\ timeoutId' = AfterCleanup(timeoutId, "timeoutId", flow)
  /\ UNCHANGED <<flow, flowKind, messages, isGenerating, jobStatus, portfolioData, captured,
                 requests, srv, simTimers, sendTimers, sends, statusFetches, resultFetches,
                 deadlineFired>>
  /\ UNCHANGED <<streamVars, entryVars>>

\* handleSend with a non-blank input (lines 217-229)
handleSend ==
  /\ mounted /\ flow > 0 /\ sends < MaxSends
  /\ sends' = sends + 1
  /\ messages' = Append(messages, UserChat)
  /\ isGenerating' = TRUE
  /\ sendTimers' = sendTimers + 1
  /\ UNCHANGED <<mounted, flow, flowKind, jobStatus, portfolioData, intervalId, timeoutId,
                 captured, requests, srv, simTimers, statusFetches, resultFetches,
                 deadlineFired>>
  /\ UNCHANGED <<streamVars, entryVars>>

\* the 1500 ms timer of handleSend fires
SendTimerFire ==
  /\ sendTimers > 0
  /\ sendTimers' = sendTimers - 1
  /\ messages' = SetState(Append(messages, ChatReply), messages)
  /\ isGenerating' = SetState(FALSE, isGenerating)
  /\ UNCHANGED <<mounted, flow, flowKind, jobStatus, portfolioData, intervalId, timeoutId,
                 captured, requests, srv, simTimers, sends, statusFetches, resultFetches,
                 deadlineFired>>
  /\ UNCHANGED <<streamVars, entryVars>>

\* one mounted editor whose submissions all carry a job id
Next ==
  \/ SubmitJob
  \/ \E f \in Flows : Tick(f)
  \/ \E f \in Flows : Deadline(f)
  \/ \E i \in 1..MaxStatusFetches : ServerAnswerStatus(i)
  \/ \E i \in 1..MaxStatusFetches : StatusResolved(i)
  \/ \E i \in 1..MaxStatusFetches : StatusNotFound(i)
  \/ \E i \in 1..MaxStatusFetches : StatusFailed(i)
  \/ \E i \in 1..MaxStatusFetches : ResultSettled(i)
  \/ Unmount

Spec == Init /\ [][Next]_vars

\* the same editor with prompt-only submissions and the chat input as well
NextChat ==
  \/ Next
  \/ SubmitPrompt
  \/ SimTimerFire
  \/ handleSend
  \/ SendTimerFire

SpecChat == Init /\ [][NextChat]_vars

\* ------------------------------------------------------------- the streaming editor
\* The Editor of unnamed/part_001: handleSend opens one WebSocket per call and
\* its onopen, onmessage and onerror callbacks.  It has the same messages and
\* isGenerating state as the polling editor; a behaviour is one of the one
\* editor or of the other.
MaxSessions == 2         \* handleSend calls (WebSockets opened) in one behaviour
MaxFragments == 2        \* text frames the server streams on one connection

\* texts the user types or the prompt search parameter carries
Texts == {"hi"}
\* the text the server streams, frame by frame; a connection carries its
\* first MaxFragments frames at most
Response == <<"Hel", "lo", " wor", "ld">>
Fragments == {Response[k] : k \in 1..MaxFragments}
EndOfStream == "__END_OF_STREAM__"

\* timeline messages of the streaming editor; pct holds the session (the
\* handleSend call) the message comes from, which the code does not record
StreamUserMessage(s, text) == Msg("user", "prompt", text, s, "")
StreamAssistantMessage(s, content) == Msg("assistant", "stream", content, s, "")
ConnectionErrorMessage ==
  Msg("assistant", "connection_error", "Connection Error. Please verify backend is running.", 0, "")

\* new WebSocket(WS_URL) and `let accumulatedResponse = ""` of one handleSend
\* call; received lists the text frames delivered so far
NewSocket(text) ==
  [state |-> "connecting", textToSend |-> text, accumulatedResponse |-> "", received |-> <<>>]

\* an accumulator that keeps the newest frame only
AccumulateLatestOnly(acc, data) == data

\* an accumulator that extends the content the timeline shows last, whichever
\* session streamed it, instead of the session's own accumulatedResponse
AccumulateOntoDisplayed(acc, data) ==
  IF Len(messages) > 0 /\ messages[Len(messages)].kind = "stream"
  THEN messages[Len(messages)].text \o data
  ELSE data

\* accumulatedResponse += event.data
Accumulate(acc, data) == acc \o data

\* setMessages(prev => ...) of onmessage (lines 47-53)
ReplaceOrAppend(prev, msg) ==
  IF Len(prev) > 0 /\ prev[Len(prev)].role = "assistant"
  THEN SubSeq(prev, 1, Len(prev) - 1) \o <<msg>>
  ELSE Append(prev, msg)

\* onChange of the input field
TypeInput(text) ==
  /\ mounted /\ input # text
  /\ input' = text
  /\ UNCHANGED <<mounted, messages, isGenerating, sockets>>
  /\ UNCHANGED <<pollVars, entryVars>>

\* handleSend(overrideInput) of the streaming editor: overrideInput is the
\* prompt parameter when the effect calls it, and "" (undefined) when the
\* Enter key or the send button does
handleSendStream(overrideInput) ==
  /\ mounted /\ Len(sockets) < MaxSessions
  /\ LET textToSend == IF overrideInput # "" THEN overrideInput ELSE input IN
       /\ textToSend # ""
       /\ messages' = Append(messages, StreamUserMessage(Len(sockets) + 1, textToSend))
       /\ input' = IF overrideInput = "" THEN "" ELSE input
       /\ isGenerating' = TRUE
       /\ sockets' = Append(sockets, NewSocket(textToSend))
  /\ UNCHANGED mounted
  /\ UNCHANGED <<pollVars, entryVars>>

\* socket.onopen: socket.send(textToSend)
OnOpen(s) ==
  /\ s \in 1..Len(sockets) /\ sockets[s].state = "connecting"
  /\ sockets' = [sockets EXCEPT ![s].state = "open"]
  /\ UNCHANGED <<mounted, messages, isGenerating, input>>
  /\ UNCHANGED <<pollVars, entryVars>>

\* socket.onmessage with event.data = data (lines 41-55)
OnMessage(s, data) ==
  /\ s \in 1..Len(sockets) /\ sockets[s].state = "open"
  /\ IF data = EndOfStream
     THEN /\ isGenerating' = SetState(FALSE, isGenerating)
          /\ sockets' = [sockets EXCEPT ![s].state = "closed"]
          /\ UNCHANGED messages
     ELSE /\ Len(sockets[s].received) < MaxFragments
          /\ data = Response[Len(sockets[s].received) + 1]
          /\ LET acc == Accumulate(sockets[s].accumulatedResponse, data) IN
               /\ sockets' = [sockets EXCEPT ![s].accumulatedResponse = acc,
                                             ![s].received = Append(@, data)]
               /\ messages' =
                    SetState(ReplaceOrAppend(messages, StreamAssistantMessage(s, acc)), messages)
          /\ UNCHANGED isGenerating
  /\ UNCHANGED <<mounted, input>>
  /\ UNCHANGED <<pollVars, entryVars>>

\* an onerror that only logs the error
KeepTimelineOnError(prev) == prev

\* setMessages(prev => [...prev, connection error message]) of onerror (lines 60-63)
AppendConnectionError(prev) == Append(prev, ConnectionErrorMessage)

\* socket.onerror (lines 57-64); the browser closes a connection that failed
OnError(s) ==
  /\ s \in 1..Len(sockets) /\ sockets[s].state \in {"connecting", "open"}
  /\ sockets' = [sockets EXCEPT ![s].state = "failed"]
  /\ isGenerating' = SetState(FALSE, isGenerating)
  /\ messages' = SetState(AppendConnectionError(messages), messages)
  /\ UNCHANGED <<mounted, input>>
  /\ UNCHANGED <<pollVars, entryVars>>

\* the server closes the connection without the sentinel: the socket has no
\* onclose handler
ServerClose(s) ==
  /\ s \in 1..Len(sockets) /\ sockets[s].state = "open"
  /\ sockets' = [sockets EXCEPT ![s].state = "closed_by_server"]
  /\ UNCHANGED <<mounted, messages, isGenerating, input>>
  /\ UNCHANGED <<pollVars, entryVars>>

\* the streaming editor unmounts: its effect returns no cleanup (lines 20-24)
StreamUnmount ==
  /\ mounted /\ Len(sockets) > 0
  /\ mounted' = FALSE
  /\ UNCHANGED <<messages, isGenerating, sockets, input>>
  /\ UNCHANGED <<pollVars, entryVars>>

NextStream ==
  \/ \E text \in Texts : TypeInput(text)
  \/ \E overrideInput \in Texts \cup {""} : handleSendStream(overrideInput)
  \/ \E s \in 1..MaxSessions : OnOpen(s)
  \/ \E s \in 1..MaxSessions, data \in Fragments \cup {EndOfStream} : OnMessage(s, data)
  \/ \E s \in 1..MaxSessions : OnError(s)
  \/ \E s \in 1..MaxSessions : ServerClose(s)
  \/ StreamUnmount

SpecStream == Init /\ [][NextStream]_vars

\* ------------------------------------------------------------- progress reports
\* one polling flow against the backend whose progress reports vary
NextProgress ==
  \/ flow = 0 /\ SubmitJob
  \/ \E f \in Flows : Tick(f)
  \/ \E f \in Flows : Deadline(f)
  \/ \E i \in 1..MaxStatusFetches : ServerAnswerProgress(i)
  \/ \E i \in 1..MaxStatusFetches : StatusResolved(i)
  \/ \E i \in 1..MaxStatusFetches : StatusNotFound(i)
  \/ \E i \in 1..MaxStatusFetches : StatusFailed(i)
  \/ \E i \in 1..MaxStatusFetches : ResultSettled(i)

SpecProgress == Init /\ [][NextProgress]_vars

\* ------------------------------------------------------------- either editor
\* Either editor.  Of the polling editor: one job submission among prompt
\* submissions, with the job's initial poll and its result fetch, the
\* deadline, and the chat input with its timers.  The chat sends multiply the
\* interleavings, so further job submissions and the interval ticks are left
\* to Spec.
PollingEditor == sockets = <<>> /\ input = ""
StreamingEditor == flow = 0

\* the page is one of the two editors: the polling editor never opens a
\* socket or reads the input state, the streaming editor never starts a flow
NextEither ==
  \/ PollingEditor /\ SumOver(statusFetches, Flows) = 0 /\ SubmitJob
  \/ PollingEditor /\ SubmitPrompt
  \/ PollingEditor /\ SimTimerFire
  \/ PollingEditor /\ \E f \in Flows : Deadline(f)
  \/ PollingEditor /\ \E i \in 1..MaxStatusFetches : ServerAnswerStatus(i)
  \/ PollingEditor /\ \E i \in 1..MaxStatusFetches : StatusResolved(i)
  \/ PollingEditor /\ \E i \in 1..MaxStatusFetches : StatusNotFound(i)
  \/ PollingEditor /\ \E i \in 1..MaxStatusFetches : StatusFailed(i)
  \/ PollingEditor /\ \E i \in 1..MaxStatusFetches : ResultSettled(i)
  \/ PollingEditor /\ handleSend
  \/ PollingEditor /\ SendTimerFire
  \/ StreamingEditor /\ \E text \in Texts : TypeInput(text)
  \/ StreamingEditor /\ \E overrideInput \in Texts \cup {""} : handleSendStream(overrideInput)
  \/ StreamingEditor /\ \E s \in 1..MaxSessions : OnOpen(s)
  \/ StreamingEditor /\ \E s \in 1..MaxSessions, data \in Fragments \cup {EndOfStream} : OnMessage(s, data)
  \/ StreamingEditor /\ \E s \in 1..MaxSessions : OnError(s)
  \/ StreamingEditor /\ \E s \in 1..MaxSessions : ServerClose(s)
  \/ StreamingEditor /\ StreamUnmount

SpecEither == Init /\ [][NextEither]_vars

\* ------------------------------------------------------------- upload entry point
\* Hero (components/Hero.tsx): the landing page's prompt box with an optional
\* resume attachment.  navigate() changes the route, which unmounts Hero; a
\* handleSubmit call that is still awaiting its upload runs on after that.
MaxUploads == 2          \* handleSubmit calls that upload a file

\* what the user types into the textarea; " " is text that trims to nothing
Prompts == {"", " ", "hi"}
\* String.prototype.trim on the texts above
Trim(p) == IF p = " " THEN "" ELSE p

\* files the picker offers, and the MIME type of each
SelectableFiles == {"cv.pdf", "notes.txt"}
FileType(f) == IF f = "cv.pdf" THEN "application/pdf" ELSE "text/plain"
\* handleFileChange's validation: a PDF or an image
Accepted(f) == FileType(f) = "application/pdf"

\* job_id values of the upload response; "null" when the response carries none
JobIds == {"job1"}

\* a handleSubmit that submits whatever the fields hold
CanSubmitAlways(p, f) == TRUE

\* handleSubmit's early return, negated: `if (!prompt.trim() && !file) return`
CanSubmit(p, f) == Trim(p) # "" \/ f # "null"

\* the URLSearchParams handleSubmit navigates with; "absent" for a parameter not set
Params(p, jobId, f) ==
  [prompt |-> IF Trim(p) # "" THEN p ELSE "absent",
   jobId |-> IF jobId # "null" THEN jobId ELSE "absent",
   fileName |-> IF f # "null" THEN f ELSE "absent"]

\* onChange of the textarea
SetPrompt(p) ==
  /\ heroMounted /\ prompt # p
  /\ prompt' = p
  /\ UNCHANGED <<heroMounted, file, isUploading, uploads, navigations>>
  /\ UNCHANGED <<mounted, messages, isGenerating, pollVars, streamVars, authVars>>

\* handleFileChange: the picker returns file f
handleFileChange(f) ==
  /\ heroMounted
  /\ file' = IF Accepted(f) THEN f ELSE file
  /\ UNCHANGED <<heroMounted, prompt, isUploading, uploads, navigations>>
  /\ UNCHANGED <<mounted, messages, isGenerating, pollVars, streamVars, authVars>>

\* removeFile: the X next to the attached file's name
removeFile ==
  /\ heroMounted /\ file # "null"
  /\ file' = "null"
  /\ UNCHANGED <<heroMounted, prompt, isUploading, uploads, navigations>>
  /\ UNCHANGED <<mounted, messages, isGenerating, pollVars, streamVars, authVars>>

\* handleSubmit up to its first await (or, without a file, to its end); via is
\* "button" for the submit button, which is disabled when both fields are
\* empty or an upload is in progress, and "enter" for handleKeyDown
handleSubmit(via) ==
  /\ heroMounted
  /\ via = "button" => (Trim(prompt) # "" \/ file # "null") /\ ~isUploading
  /\ IF ~CanSubmit(prompt, file)
     THEN UNCHANGED heroVars
     ELSE IF file # "null"
     THEN /\ Len(uploads) < MaxUploads
          /\ isUploading' = TRUE
          /\ uploads' = Append(uploads, [state |-> "sent", prompt |-> prompt, file |-> file,
                                         job_id |-> "null"])
          /\ UNCHANGED <<heroMounted, prompt, file, navigations>>
     ELSE /\ navigations' = Append(navigations, Params(prompt, "null", file))
          /\ heroMounted' = FALSE
          /\ isUploading' = FALSE
          /\ UNCHANGED <<prompt, file, uploads>>
  /\ UNCHANGED <<mounted, messages, isGenerating, pollVars, streamVars, authVars>>

\* the upload of call u is answered 2xx with job_id: the rest of the try
\* block and the finally block run with the prompt and file of that call
UploadResolved(u, job_id) ==
  /\ u \in 1..Len(uploads) /\ uploads[u].state = "sent"
  /\ uploads' = [uploads EXCEPT ![u].state = "done", ![u].job_id = job_id]
  /\ navigations' = Append(navigations, Params(uploads[u].prompt, job_id, uploads[u].file))
  /\ heroMounted' = FALSE
  /\ isUploading' = IF heroMounted THEN FALSE ELSE isUploading
  /\ UNCHANGED <<prompt, file>>
  /\ UNCHANGED <<mounted, messages, isGenerating, pollVars, streamVars, authVars>>

\* the upload of call u fails: the catch block and the finally block run
UploadRejected(u) ==
  /\ u \in 1..Len(uploads) /\ uploads[u].state = "sent"
  /\ uploads' = [uploads EXCEPT ![u].state = "failed"]
  /\ isUploading' = IF heroMounted THEN FALSE ELSE isUploading
  /\ UNCHANGED <<heroMounted, prompt, file, navigations>>
  /\ UNCHANGED <<mounted, messages, isGenerating, pollVars, streamVars, authVars>>

NextHero ==
  \/ \E p \in Prompts : SetPrompt(p)
  \/ \E f \in SelectableFiles : handleFileChange(f)
  \/ removeFile
  \/ \E via \in {"button", "enter"} : handleSubmit(via)
  \/ \E u \in 1..MaxUploads, job_id \in JobIds \cup {"null"} : UploadResolved(u, job_id)
  \/ \E u \in 1..MaxUploads : UploadRejected(u)

SpecHero == Init /\ [][NextHero]_vars

\* ------------------------------------------------------------- sign-in and the protected route
\* Login (unnamed/part_000), GitHubCallback (pages/auth/github/callback.tsx),
\* Header and ProtectedRoute (components/Header.tsx) and the request
\* interceptor (lib/api.ts).  Firebase's auth state and localStorage are
\* shared by every page of the origin, so the callbacks below interleave freely.
MaxSignIns == 2          \* sign-in attempts, Google and GitHub together
MaxLogouts == 1          \* handleLogout calls

\* ID tokens Firebase issues, and access tokens the backend's GitHub exchange
\* returns ("null": the response carries none)
IdTokens == {"g1"}
AccessTokens == {"h1"}

\* localStorage.setItem("token", token) of handleGoogleLogin
StoreIdToken(storage, token) == [storage EXCEPT !.token = token]

\* `if (data.access_token) localStorage.setItem("auth_token", data.access_token)` of exchangeCode
StoreAccessToken(storage, access_token) ==
  IF access_token # "null" THEN [storage EXCEPT !.auth_token = access_token] ELSE storage

\* a sign-out that leaves localStorage as it is
KeepToken(storage) == storage

\* localStorage.removeItem("token") of handleLogout and of the auth listener
RemoveToken(storage) == [storage EXCEPT !.token = "null"]

\* ProtectedRoute: children are rendered when localStorage.getItem("token") is truthy
ProtectedRouteRenders(storage) == storage.token # "null"

\* the request interceptor: the Authorization header it leaves on the request
AuthorizationHeader(storage) ==
  IF storage.token # "null" THEN "Bearer " \o storage.token ELSE "absent"

\* the Google button: handleGoogleLogin up to `await signInWithPopup`
handleGoogleLogin ==
  /\ googleLogin = "idle" /\ signIns < MaxSignIns
  /\ signIns' = signIns + 1
  /\ googleLogin' = "popup"
  /\ UNCHANGED <<localStorage, currentUser, authEvents, user, exchange, logout, logouts,
                 editorRoute, authorization>>
  /\ UNCHANGED <<mounted, messages, isGenerating, pollVars, streamVars, heroVars>>

\* signInWithPopup resolves: Firebase has a user and notifies its listeners;
\* handleGoogleLogin goes on to `await result.user.getIdToken()`
PopupResolved ==
  /\ googleLogin = "popup"
  /\ currentUser' = "user"
  /\ authEvents' = Append(authEvents, "user")
  /\ googleLogin' = "token"
  /\ UNCHANGED <<localStorage, user, exchange, logout, signIns, logouts, editorRoute, authorization>>
  /\ UNCHANGED <<mounted, messages, isGenerating, pollVars, streamVars, heroVars>>

\* getIdToken resolves with token: it is stored and the page navigates to "/"
IdTokenResolved(token) ==
  /\ googleLogin = "token"
  /\ localStorage' = StoreIdToken(localStorage, token)
  /\ googleLogin' = "idle"
  /\ UNCHANGED <<currentUser, authEvents, user, exchange, logout, signIns, logouts,
                 editorRoute, authorization>>
  /\ UNCHANGED <<mounted, messages, isGenerating, pollVars, streamVars, heroVars>>

\* signInWithPopup or getIdToken rejects: the catch block logs the error
GoogleLoginRejected ==
  /\ googleLogin \in {"popup", "token"}
  /\ googleLogin' = "idle"
  /\ UNCHANGED <<localStorage, currentUser, authEvents, user, exchange, logout, signIns, logouts,
                 editorRoute, authorization>>
  /\ UNCHANGED <<mounted, messages, isGenerating, pollVars, streamVars, heroVars>>

\* GitHub redirects to /auth/github/callback with a code: the effect posts it
\* to the backend
exchangeCode ==
  /\ exchange \in {"idle", "success", "error"} /\ signIns < MaxSignIns
  /\ signIns' = signIns + 1
  /\ exchange' = "sent"
  /\ UNCHANGED <<localStorage, currentUser, authEvents, user, googleLogin, logout, logouts,
                 editorRoute, authorization>>
  /\ UNCHANGED <<mounted, messages, isGenerating, pollVars, streamVars, heroVars>>

\* the exchange is answered ok with access_token in its body
ExchangeResolved(access_token) ==
  /\ exchange = "sent"
  /\ localStorage' = StoreAccessToken(localStorage, access_token)
  /\ exchange' = "success"
  /\ UNCHANGED <<currentUser, authEvents, user, googleLogin, logout, signIns, logouts,
                 editorRoute, authorization>>
  /\ UNCHANGED <<mounted, messages, isGenerating, pollVars, streamVars, heroVars>>

\* the exchange is answered not ok, or the fetch fails
ExchangeRejected ==
  /\ exchange = "sent"
  /\ exchange' = "error"
  /\ UNCHANGED <<localStorage, currentUser, authEvents, user, googleLogin, logout, signIns, logouts,
                 editorRoute, authorization>>
  /\ UNCHANGED <<mounted, messages, isGenerating, pollVars, streamVars, heroVars>>

\* Header's onAuthStateChanged callback runs with the oldest undelivered change
AuthStateChanged ==
  /\ authEvents # <<>>
  /\ LET reported == Head(authEvents) IN
       /\ user' = reported
       /\ localStorage' = IF reported = "null" THEN RemoveToken(localStorage) ELSE localStorage
  /\ authEvents' = Tail(authEvents)
  /\ UNCHANGED <<currentUser, googleLogin, exchange, logout, signIns, logouts,
                 editorRoute, authorization>>
  /\ UNCHANGED <<mounted, messages, isGenerating, pollVars, streamVars, heroVars>>

\* the Log out item of the user menu, shown while Header has a user:
\* handleLogout up to `await signOut(auth)`
handleLogout ==
  /\ user # "null" /\ logout = "idle" /\ logouts < MaxLogouts
  /\ logouts' = logouts + 1
  /\ logout' = "signOut"
  /\ UNCHANGED <<localStorage, currentUser, authEvents, user, googleLogin, exchange, signIns,
                 editorRoute, authorization>>
  /\ UNCHANGED <<mounted, messages, isGenerating, pollVars, streamVars, heroVars>>

\* signOut resolves: Firebase has no user and notifies its listeners; the
\* token is removed and the page navigates to /login
SignOutResolved ==
  /\ logout = "signOut"
  /\ currentUser' = "null"
  /\ authEvents' = IF currentUser # "null" THEN Append(authEvents, "null") ELSE authEvents
  /\ localStorage' = RemoveToken(localStorage)
  /\ logout' = "idle"
  /\ UNCHANGED <<user, googleLogin, exchange, signIns, logouts, editorRoute, authorization>>
  /\ UNCHANGED <<mounted, messages, isGenerating, pollVars, streamVars, heroVars>>

\* signOut rejects: the catch block logs the error
SignOutRejected ==
  /\ logout = "signOut"
  /\ logout' = "idle"
  /\ UNCHANGED <<localStorage, currentUser, authEvents, user, googleLogin, exchange, signIns, logouts,
                 editorRoute, authorization>>
  /\ UNCHANGED <<mounted, messages, isGenerating, pollVars, streamVars, heroVars>>

\* the browser visits /editor: ProtectedRoute renders the editor or redirects
VisitEditor ==
  /\ editorRoute' = IF ProtectedRouteRenders(localStorage) THEN "rendered" ELSE "redirected"
  /\ editorRoute' # editorRoute
  /\ UNCHANGED <<localStorage, currentUser, authEvents, user, googleLogin, exchange, logout,
                 signIns, logouts, authorization>>
  /\ UNCHANGED <<mounted, messages, isGenerating, pollVars, streamVars, heroVars>>

\* a request goes out through the api instance
ApiRequest ==
  /\ authorization' = AuthorizationHeader(localStorage)
  /\ authorization' # authorization
  /\ UNCHANGED <<localStorage, currentUser, authEvents, user, googleLogin, exchange, logout,
                 signIns, logouts, editorRoute>>
  /\ UNCHANGED <<mounted, messages, isGenerating, pollVars, streamVars, heroVars>>

NextAuth ==
  \/ handleGoogleLogin
  \/ PopupResolved
  \/ \E token \in IdTokens : IdTokenResolved(token)
  \/ GoogleLoginRejected
  \/ exchangeCode
  \/ \E access_token \in AccessTokens \cup {"null"} : ExchangeResolved(access_token)
  \/ ExchangeRejected
  \/ AuthStateChanged
  \/ handleLogout
  \/ SignOutResolved
  \/ SignOutRejected
  \/ VisitEditor
  \/ ApiRequest

SpecAuth == Init /\ [][NextAuth]_vars

\* ------------------------------------------------------------- the claims
NumKind(msgs, kind) == Cardinality({i \in 1..Len(msgs) : msgs[i].kind = kind})

TerminalKinds == {"completion", "failure", "not_found"}
FatalKinds == {"failure", "not_found", "timeout"}

\* the timeline reports a terminal outcome of the polling flow
TerminalReported == \E i \in 1..Len(messages) : messages[i].kind \in TerminalKinds

\* status requests of flow f in flight
StatusInFlight(f) ==
  {i \in 1..Len(requests) : requests[i].flow = f /\ requests[i].kind = "status"}

\* flow f has been cancelled: a later submission replaced it, or the editor unmounted
Cancelled(f) == f < flow \/ (f = flow /\ ~mounted)

\* a continuation of request i runs
Continuation(i) ==
  StatusResolved(i) \/ StatusNotFound(i) \/ StatusFailed(i) \/ ResultSettled(i)

\* C1: once the timeline reports a terminal outcome (completion, failure or
\* job not found), no later step appends a timeout message.
C1_NoTimeoutAfterTerminal ==
  [][TerminalReported => NumKind(messages', "timeout") <= NumKind(messages, "timeout")]_vars

\* C2: in a single polling run the timeline never holds more than one
\* completion message, and once a completion message is reported no further
\* status fetch is started.
C2_OneCompletionThenStop ==
  [][(flow = 1 /\ flow' = 1) =>
       /\ NumKind(messages', "completion") <= 1
       /\ NumKind(messages, "completion") >= 1 => statusFetches'[1] = statusFetches[1]]_vars

\* C3: in a single polling run whose job was reported failed with an error
\* message, once no timer of the flow is armed and no request is in flight,
\* the last timeline message is the failure message with that error message.
C3_FailureIsLastWhenQuiescent ==
  (/\ flow = 1 /\ mounted
   /\ jobStatus.status = "failed" /\ jobStatus.error # "none"
   /\ ~intervalId[1] /\ ~timeoutId[1] /\ requests = <<>>)
  => /\ Len(messages) > 0
     /\ messages[Len(messages)] = FailureMessage(jobStatus.error)

\* C4: in a single polling run each fatal condition (failed, job not found,
\* deadline) puts at most one message of its kind on the timeline, and a
\* reported fatal condition leaves the in-progress flag false.
C4_OneMessagePerFatalCondition ==
  flow = 1 =>
    /\ \A k \in FatalKinds : NumKind(messages, k) <= 1
    /\ (\E k \in FatalKinds : NumKind(messages, k) >= 1) => ~isGenerating

\* C5: once the deadline callback of the current flow has run with no terminal
\* status applied before it, the timeline holds exactly one timeout message,
\* the in-progress flag is false, and the flow starts no status fetch and no
\* result fetch any more.
C5_NoNetworkAfterDeadline ==
  [][\A f \in Flows :
       (deadlineFired[f] = "pending" /\ f = flow /\ flow' = flow) =>
         /\ NumKind(messages, "timeout") = 1
         /\ ~isGenerating
         /\ statusFetches'[f] = statusFetches[f]
         /\ resultFetches'[f] = resultFetches[f]]_vars

\* C6: while the Job snapshot belongs to the same job, a terminal status
\* (completed, failed, cancelled) of the snapshot never changes.
C6_TerminalStatusIsFinal ==
  [][(jobStatus.status \in TerminalStatus /\ jobStatus'.job_id = jobStatus.job_id)
       => jobStatus'.status = jobStatus.status]_vars

\* C7: once a cancelled snapshot of the current job has been applied, no
\* further status fetch is started for that job.
C7_CancelledStopsPolling ==
  [][(jobStatus.status = "cancelled" /\ jobStatus.job_id = flow /\ flow' = flow)
       => statusFetches'[flow] = statusFetches[flow]]_vars

\* C8: the continuation of a status or result fetch of a cancelled flow
\* changes neither the timeline, the Job snapshot, the result artifact nor the
\* in-progress flag.
C8_NoMutationAfterCancellation ==
  [][\A i \in 1..MaxStatusFetches :
       (i <= Len(requests) /\ Cancelled(requests[i].flow) /\ Continuation(i))
         => UNCHANGED clientState]_vars

\* C9: once a later submission has started, the interval timer and the
\* deadline timer of every earlier flow are cleared, and neither its tick
\* callback nor its deadline callback runs again.
C9_OldTimersNeverFire ==
  [][\A f \in Flows :
       f < flow =>
         /\ ~intervalId[f] /\ ~timeoutId[f]
         /\ statusFetches'[f] = statusFetches[f]
         /\ deadlineFired'[f] = deadlineFired[f]]_vars

\* a second submission started while the first poller was active: its
\* initial fetch is still in flight and its deadline has not fired
C9_Witness ==
  /\ flow = 2 /\ flowKind[1] = "job"
  /\ StatusInFlight(1) # {}
  /\ deadlineFired[1] = "none"
  /\ ~intervalId[1] /\ ~timeoutId[1]

\* C10: at most one status fetch of a job is in flight at any time.
C10_OneStatusFetchInFlight ==
  \A f \in Flows : Cardinality(StatusInFlight(f)) <= 1

\* the last timeline message is the acknowledgement of a job submission or a
\* progress line
ProgressSlotIsLast ==
  Len(messages) > 0 /\ messages[Len(messages)].kind \in {"ack", "progress"}

\* C11: a successful status response of the current job (not a failed one,
\* which also appends its failure message) that finds the acknowledgement or an earlier progress
\* line last on the timeline leaves the progress line built from that
\* response as the last message and the timeline length unchanged.
C11_ProgressSlotShowsLatest ==
  [][\A i \in 1..MaxStatusFetches :
       (/\ mounted /\ ProgressSlotIsLast
        /\ StatusResolved(i)
        /\ requests[i].flow = flow
        /\ requests[i].data.status # "failed")
       => /\ Len(messages') = Len(messages)
          /\ messages'[Len(messages')] = ProgressLine(requests[i].data)]_vars

\* C12: when a status response carries the snapshot that the previous
\* response already applied (the same snapshot on two consecutive polls), the
\* repeat leaves the timeline as the first one left it.
C12_RepeatedSnapshotChangesNothing ==
  [][\A i \in 1..MaxStatusFetches :
       (/\ mounted
        /\ StatusResolved(i)
        /\ requests[i].data = jobStatus)
       => messages' = messages]_vars

\* C13: in a single polling run a status fetch answered 404 appends the
\* job-not-found message and clears the in-progress flag, and once the
\* job-not-found message is reported no further status fetch is started.
C13_NotFoundIsFatal ==
  [][(flow = 1 /\ flow' = 1 /\ mounted) =>
       /\ \A i \in 1..MaxStatusFetches :
            StatusNotFound(i) =>
              messages' = Append(messages, JobNotFoundMessage) /\ ~isGenerating'
       /\ NumKind(messages, "not_found") >= 1 => statusFetches'[1] = statusFetches[1]]_vars

\* C14: a status fetch that fails with an error other than 404 leaves the
\* timeline, the Job snapshot, the result artifact and the in-progress flag
\* unchanged (no message is emitted) and leaves the interval and deadline
\* timers as they were, so polling continues.
C14_TransientErrorSkipsTick ==
  [][\A i \in 1..MaxStatusFetches :
       StatusFailed(i) =>
         /\ UNCHANGED clientState
         /\ intervalId' = intervalId /\ timeoutId' = timeoutId]_vars

\* the initial fetch of the first job failed with a transient error: nothing
\* is in flight, the editor state is as the submission left it and the
\* interval is still armed
C14_Witness ==
  /\ mounted /\ flow = 1 /\ statusFetches[1] = 1 /\ requests = <<>>
  /\ messages = <<UserSubmission(1), Acknowledgement(1)>>
  /\ jobStatus = PendingJob(1) /\ isGenerating /\ portfolioData = "null"
  /\ intervalId[1] /\ timeoutId[1]

\* HTTP codes by which GET /portfolio/{id} says the result is not available yet
NotYetAvailable == {202, 404}

\* C15: a result fetch answered 202 or 404 after the job reported completed
\* appends no message (neither failure nor completion), stores no result
\* artifact and leaves the in-progress flag set.
C15_NotYetAvailableIsNotFatal ==
  [][\A i \in 1..MaxStatusFetches, code \in NotYetAvailable :
       (mounted /\ isGenerating /\ ResultSettledWith(i, code))
         => /\ messages' = messages
            /\ portfolioData' = portfolioData
            /\ isGenerating']_vars

\* C16: whenever the timeline holds a completion message, a result artifact
\* (the body of a 200 answer of GET /portfolio/{id}) is stored.
C16_CompletionImpliesArtifact ==
  NumKind(messages, "completion") >= 1 => portfolioData = "portfolio"

\* the current polling flow has nothing left to run: both timers are off and
\* no request of the flow is in flight
FlowQuiescent ==
  /\ mounted /\ flow > 0 /\ flowKind[flow] = "job"
  /\ ~intervalId[flow] /\ ~timeoutId[flow]
  /\ \A i \in 1..Len(requests) : requests[i].flow # flow

\* C17: every polling flow that is not cancelled ends visibly.  Within a flow
\* the in-progress flag is never set again and the timeline only grows, so
\* the flow reaches the claimed state exactly if it is there once nothing of
\* the flow is left to run: the in-progress flag is false and the timeline
\* holds a completion, failure, job-not-found or timeout message.
C17_FlowEndsVisibly ==
  FlowQuiescent =>
    /\ ~isGenerating
    /\ \E i \in 1..Len(messages) : messages[i].kind \in TerminalKinds \cup {"timeout"}

\* f1..fn concatenated in order
RECURSIVE Concat(_)
Concat(frames) == IF frames = <<>> THEN "" ELSE Head(frames) \o Concat(Tail(frames))

\* C19: in a single streaming session that received the fragments f1..fn
\* (n >= 1), the frame carrying the end-of-stream sentinel leaves the timeline
\* with the user message and exactly one assistant message whose content is
\* f1..fn concatenated in arrival order, the connection closed by the client
\* and the in-progress flag false.
C19_StreamingAccumulation ==
  [][(/\ mounted /\ Len(sockets) = 1
      /\ sockets[1].received # <<>>
      /\ OnMessage(1, EndOfStream))
     => /\ messages' = <<StreamUserMessage(1, sockets[1].textToSend),
                         StreamAssistantMessage(1, Concat(sockets[1].received))>>
        /\ sockets'[1].state = "closed"
        /\ ~isGenerating']_vars

\* a single session has received two fragments and then the sentinel
C19_Witness ==
  /\ mounted /\ Len(sockets) = 1
  /\ sockets[1].state = "closed" /\ Len(sockets[1].received) >= 2
  /\ Len(messages) = 2 /\ messages[2].text = Concat(sockets[1].received)

\* C20: a fragment of session s replaces the last timeline message only when
\* that message is an assistant message streamed by s itself; when the last
\* message is anything else (a user message, an assistant message of another
\* session, a connection-error message) the timeline is kept as it is and a
\* new assistant message is appended.
C20_ReplaceOnlyOwnMessage ==
  [][\A s \in 1..MaxSessions, data \in Fragments :
       (mounted /\ Len(messages) > 0 /\ OnMessage(s, data))
       => LET last == messages[Len(messages)] IN
            IF last.kind = "stream" /\ last.pct = s
            THEN Len(messages') = Len(messages)
            ELSE /\ Len(messages') = Len(messages) + 1
                 /\ SubSeq(messages', 1, Len(messages)) = messages]_vars

\* every user message of the timeline is at its position, with its content,
\* after the step
UserMessagesKept ==
  \A i \in 1..Len(messages) :
    messages[i].role = "user" => (i <= Len(messages') /\ messages'[i] = messages[i])

\* C18 as stated: a user message stays at its position with its content
\* after every later operation of either editor, the start of a new
\* submission included.
C18_UserMessagesNeverMove == [][UserMessagesKept]_vars

\* C18: a user message stays at its position with its content after every
\* later operation of the same submission (progress coalescing, terminal and
\* timeout messages, streamed fragments, further user sends, in either
\* editor); the start of a new submission of the polling editor replaces the
\* whole timeline.
C18_UserMessagesKeptWithinSubmission == [][flow' = flow => UserMessagesKept]_vars

\* the polling editor's first submission was coalesced into a progress line,
\* the user sent a chat message, and a terminal or timeout message came after it
C18_Witness ==
  /\ flow = 1 /\ messages[1] = UserSubmission(1)
  /\ Len(messages) >= 4 /\ messages[2].kind = "progress"
  /\ \E i \in 3..Len(messages) :
       /\ messages[i] = UserChat
       /\ \E j \in (i + 1)..Len(messages) : messages[j].kind \in TerminalKinds \cup {"timeout"}

\* C21: a connection error of a streaming session clears the in-progress
\* flag, appends exactly one assistant message reporting the connection
\* failure, and opens no new connection.
C21_ConnectionErrorReported ==
  [][\A s \in 1..MaxSessions :
       (mounted /\ OnError(s))
       => /\ ~isGenerating'
          /\ messages' = Append(messages, ConnectionErrorMessage)
          /\ Len(sockets') = Len(sockets)
          /\ \A t \in 1..Len(sockets) : t # s => sockets'[t] = sockets[t]]_vars

\* the only session failed while it was streaming: its partial answer is
\* followed by the connection-error message and the flag is false
C21_Witness ==
  /\ mounted /\ Len(sockets) = 1 /\ sockets[1].state = "failed"
  /\ sockets[1].received # <<>>
  /\ ~isGenerating
  /\ Len(messages) = 3 /\ messages[3] = ConnectionErrorMessage

\* the connections that are connecting or open
LiveSockets == {s \in 1..Len(sockets) : sockets[s].state \in {"connecting", "open"}}

\* C22: at any time at most one streaming connection is connecting or open.
C22_OneLiveConnection == Cardinality(LiveSockets) <= 1

\* C23: when the streaming editor unmounts, every connection that is open
\* is closed in the same step, and once the editor is unmounted no step
\* changes the timeline or the in-progress flag.
C23_TeardownClosesConnections ==
  [][/\ StreamUnmount =>
          \A s \in 1..Len(sockets) : sockets[s].state = "open" => sockets'[s].state # "open"
     /\ ~mounted => UNCHANGED <<messages, isGenerating>>]_vars

\* C24: every streaming session leaves the in-progress state.  After the
\* last handleSend call only a sentinel or a connection error changes the
\* flag, so the sessions have all left the in-progress state exactly if the
\* flag is false once no connection is connecting or open any more.
C24_EndedSessionsClearFlag ==
  (mounted /\ Len(sockets) > 0 /\ LiveSockets = {}) => ~isGenerating

\* C25: once a failed snapshot of the current job has been applied, no
\* status fetch and no result fetch is started for that job.
C25_FailedStopsPolling ==
  [][(jobStatus.status = "failed" /\ jobStatus.job_id = flow /\ flow' = flow)
       => /\ statusFetches'[flow] = statusFetches[flow]
          /\ resultFetches'[flow] = resultFetches[flow]]_vars

\* C26: a submission with a job id leaves the editor, before any status
\* response, with the pending snapshot of that job (progress 0, no stage),
\* the in-progress flag true, the timeline made of the submission message and
\* the acknowledgement, and no result artifact.
C26_StateAfterSubmission ==
  [][SubmitJob =>
       /\ jobStatus' = PendingJob(flow')
       /\ isGenerating'
       /\ messages' = <<UserSubmission(flow'), Acknowledgement(flow')>>
       /\ portfolioData' = "null"]_vars

\* C27: after every successful status response the Job snapshot is the
\* fetched snapshot, field by field: nothing of the previous snapshot is
\* kept, and a progress percentage lower than the previous one is stored as
\* it came.
C27_SnapshotIsOverwritten ==
  [][\A i \in 1..MaxStatusFetches :
       (mounted /\ StatusResolved(i)) => jobStatus' = requests[i].data]_vars

\* the first response (still shown by the progress line) reported 40 % in a
\* stage, a later one reported 10 % and no stage, and that is what is stored
C27_Witness ==
  /\ mounted /\ flow = 1 /\ Len(messages) >= 2
  /\ messages[2].kind = "progress" /\ messages[2].pct = 40 /\ messages[2].stage = "ocr"
  /\ jobStatus.job_id = 1
  /\ jobStatus.progress_percentage = 10 /\ jobStatus.current_stage = "null"

\* C28 as stated: once the result fetch of the current job has come back
\* without the result (nothing of the job is in flight, no artifact is stored
\* and no completion is reported), polling has stopped and no further result
\* fetch is made: the flow starts no status fetch and no result fetch.
C28_OneResultFetchPerJob ==
  [][(/\ mounted /\ flow > 0 /\ flow' = flow
      /\ resultFetches[flow] = 1
      /\ \A i \in 1..Len(requests) : requests[i].flow # flow
      /\ portfolioData = "null" /\ NumKind(messages, "completion") = 0)
     => /\ statusFetches'[flow] = statusFetches[flow]
        /\ resultFetches'[flow] = resultFetches[flow]]_vars

\* C28: a result fetch is started only by a status response that reports
\* completed with a result id, one fetch per such response; a result fetch
\* that is answered 404 or fails leaves the timers as they are, so polling
\* goes on and a later tick that finds the job completed fetches the result
\* again.
C28_ResultFetchPerCompletedResponse ==
  [][/\ \A f \in Flows :
          resultFetches'[f] # resultFetches[f] =>
            /\ resultFetches'[f] = resultFetches[f] + 1
            /\ \E i \in 1..MaxStatusFetches :
                 /\ StatusResolved(i)
                 /\ requests[i].flow = f
                 /\ requests[i].data.status = "completed" /\ requests[i].data.portfolio_id
     /\ \A i \in 1..MaxStatusFetches, code \in ResultCodes :
          (~AxiosResolves(code) /\ ResultSettledWith(i, code)) =>
            intervalId' = intervalId /\ timeoutId' = timeoutId]_vars

\* the first result fetch of the job brought no artifact, the interval is
\* still armed and a second result fetch is in flight
C28_Witness ==
  /\ mounted /\ flow = 1 /\ resultFetches[1] = 2
  /\ portfolioData = "null" /\ NumKind(messages, "completion") = 0
  /\ intervalId[1]
  /\ Len(requests) = 1 /\ requests[1].kind = "result" /\ requests[1].origin = "tick"

\* the status line of a snapshot with status st and error.message err
StatusLineOf(st, err) == statusMessages(Snapshot(1, st, 0, "null", err, FALSE))

\* C29: the status lookup is a fixed total table.  Each of the eight statuses
\* has its own line, never the fallback, and two statuses never share a line;
\* the line of every status but failed does not depend on the snapshot's
\* error; the line of failed is "Generation failed: " followed by
\* error.message, or by "Unknown error" when the snapshot carries no error.
\* Every progress line on the timeline carries a line of the table.
C29_StatusLookupTable ==
  /\ \A st1, st2 \in JobStatus, err1, err2 \in ErrorMessages \cup {"none"} :
       /\ StatusLineOf(st1, err1) # "Processing..."
       /\ st1 # st2 => StatusLineOf(st1, err1) # StatusLineOf(st2, err2)
       /\ st1 # "failed" => StatusLineOf(st1, err1) = StatusLineOf(st1, err2)
       /\ StatusLineOf("failed", err1) =
            "Generation failed: " \o (IF err1 = "none" THEN "Unknown error" ELSE err1)
  /\ \A i \in 1..Len(messages) :
       messages[i].kind = "progress" =>
         \E st \in JobStatus, err \in ErrorMessages \cup {"none"} :
           messages[i].text = StatusLineOf(st, err)

\* the progress line of a failed job shows the failed line with the job's error.message
C29_Witness ==
  /\ Len(messages) >= 2 /\ messages[2].kind = "progress"
  /\ jobStatus.status = "failed" /\ jobStatus.error = "ocr_error"
  /\ messages[2].text = "Generation failed: ocr_error"

\* the job of the current flow is still being polled and no terminal event of
\* the flow (completion, failure, job-not-found, deadline) has happened
StillPolled ==
  /\ mounted /\ flow > 0 /\ flowKind[flow] = "job"
  /\ intervalId[flow] \/ StatusInFlight(flow) # {}
  /\ deadlineFired[flow] = "none"
  /\ \A i \in 1..Len(messages) : messages[i].kind \notin TerminalKinds \cup {"timeout"}

\* C30: in the polling editor the in-progress flag stays true from a
\* submission with a job id until a terminal event of that flow; a step that
\* leaves the job still polled, a chat message of the user and its reply
\* included, does not clear the flag.  Stated for an editor with no
\* simulated generation of an earlier prompt pending.
C30_FlagHeldWhilePolled ==
  [][(StillPolled /\ simTimers = 0 /\ isGenerating /\ flow' = flow /\ StillPolled')
       => isGenerating']_vars

\* C31: in the streaming editor the content of every assistant message that
\* is not a connection-error message is the in-order concatenation of the
\* first k fragments (k >= 1) of one single session: fragments of two
\* sessions are never mixed inside one message.
C31_NoMixedSessions ==
  \A i \in 1..Len(messages) :
    messages[i].kind = "stream" =>
      \E s \in 1..Len(sockets) :
        \E k \in 1..Len(sockets[s].received) :
          messages[i].text = Concat(SubSeq(sockets[s].received, 1, k))

\* two sessions have both received fragments, and a fragment of the first
\* session was shown after the second session's user message
C31_Witness ==
  /\ Len(sockets) = 2
  /\ Len(sockets[1].received) = 2 /\ Len(sockets[2].received) >= 1
  /\ \E i, j \in 1..Len(messages) :
       /\ i < j
       /\ messages[i].kind = "prompt" /\ messages[i].pct = 2
       /\ messages[j].kind = "stream" /\ messages[j].pct = 1
       /\ messages[j].text = Concat(sockets[1].received)

\* C32: in the upload entry point a failed upload request leads to no
\* navigation and leaves the uploading flag false; a navigation carries a job
\* id only when an upload succeeded and returned that id; a submission with
\* neither prompt text nor file changes nothing.
C32_FailedUploadStaysOnPage ==
  [][/\ \A u \in 1..MaxUploads :
          UploadRejected(u) => /\ navigations' = navigations
                               /\ heroMounted => ~isUploading'
     /\ \A n \in 1..Len(navigations') :
          navigations'[n].jobId # "absent" =>
            \E u \in 1..Len(uploads') :
              /\ uploads'[u].state = "done"
              /\ uploads'[u].job_id = navigations'[n].jobId
     /\ \A via \in {"button", "enter"} :
          (handleSubmit(via) /\ Trim(prompt) = "" /\ file = "null")
            => UNCHANGED heroVars]_vars

\* an upload has failed: Hero is still shown, not uploading, and nothing was navigated
C32_Witness ==
  /\ heroMounted /\ ~isUploading /\ navigations = <<>>
  /\ Len(uploads) = 1 /\ uploads[1].state = "failed"

\* the upload requests in flight
UploadsInFlight == {u \in 1..Len(uploads) : uploads[u].state = "sent"}

\* C33: in the upload entry point at most one upload request is in flight at
\* a time.
C33_OneUploadInFlight == Cardinality(UploadsInFlight) <= 1

\* C34: a token stored by a successful sign-in, by the Google login or by the
\* GitHub OAuth callback, is the token the protected editor route accepts and
\* the request interceptor attaches: right after either sign-in succeeds with
\* a token, the editor route renders and requests carry that token.
C34_SignInTokenIsAccepted ==
  [][\A token \in IdTokens \cup AccessTokens :
       (\/ token \in IdTokens /\ IdTokenResolved(token)
        \/ token \in AccessTokens /\ ExchangeResolved(token))
       => /\ ProtectedRouteRenders(localStorage')
          /\ AuthorizationHeader(localStorage') = "Bearer " \o token]_vars

====
